---------------------------- MODULE Spec2Model ----------------------------
(***************************************************************************)
(* Model of the forum's post formatter (post_formatter.py) and of its      *)
(* emoticon extension for python-markdown (formatters/mdx_emoticons.py).   *)
(*                                                                         *)
(* A Python string is modelled as a sequence of one-character strings, so  *)
(* that scanning, escaping, formatting and stripping are computed          *)
(* character by character, the way the code and the library calls it       *)
(* makes compute them.                                                     *)
(*                                                                         *)
(* SpecPost is one call of the post formatter; SpecEmoticons is the life   *)
(* of one extension instance (construction, registration of its pattern,   *)
(* a render) over every configuration; SpecDefaultTable is the same life   *)
(* for the instances that keep the built-in table, rendering texts over    *)
(* all of its symbols.                                                     *)
(***************************************************************************)
EXTENDS Naturals, Sequences, FiniteSets

VARIABLES
    call,            \* the operation invoked last, with its arguments
    ret,             \* what that operation returned or raised
    ext,             \* the EmoticonExtension instance: "none", "ok", "TypeError"
    config,          \* self.config of the instance (option -> value)
    supplied,        \* the options __init__ was given, each with the value
                     \* given last (kept to state the properties)
    inlinePatterns   \* md.inlinePatterns: the patterns extendMarkdown appended

vars == <<call, ret, ext, config, supplied, inlinePatterns>>

-----------------------------------------------------------------------------
(* Bounds of the input space.                                              *)

\* Longest post body drawn from BodyAlphabet.
MaxBodyLen == 3

\* Longest username drawn from NameAlphabet.
MaxNameLen == 2

\* Longest list of (OPTION, value) pairs given to makeExtension.
MaxConfigs == 2

\* Most pieces (emoticon symbols, single characters) a rendered text is
\* made of.
MaxPieces == 2

-----------------------------------------------------------------------------
(* Strings.                                                                *)

RECURSIVE SeqsUpTo(_, _)
\* All sequences over alphabet A of length at most n.
SeqsUpTo(A, n) ==
    IF n = 0 THEN {<<>>}
    ELSE LET shorter == SeqsUpTo(A, n - 1)
         IN  shorter \cup {Append(s, c) : s \in shorter, c \in A}

RECURSIVE Flatten(_)
\* Concatenation of a sequence of strings.
Flatten(ss) == IF ss = <<>> THEN <<>> ELSE Head(ss) \o Flatten(Tail(ss))

\* s[i..] starts with p (i is a 0-based offset).
StartsWithAt(s, p, i) ==
    /\ i + Len(p) <= Len(s)
    /\ \A k \in 1..Len(p) : s[i + k] = p[k]

\* The 0-based offsets at which p occurs in s.
Occurrences(s, p) == {i \in 0..Len(s) : StartsWithAt(s, p, i)}

Contains(s, p) == Occurrences(s, p) # {}

\* Number of positions of s holding the character c.
CountChar(s, c) == Cardinality({i \in 1..Len(s) : s[i] = c})

-----------------------------------------------------------------------------
(* post_formatter.py                                                       *)

\* re.compile(r'^', re.MULTILINE) without the MULTILINE flag: the start of
\* the string only.
AtLineStart_NoMultiline(s, i) == i = 0

\* quote_post_re: '^' under re.MULTILINE matches (the empty string) at
\* offset i of s when i is the beginning of the string or the character
\* before it is a newline -- the end of the string after a final newline
\* included (sre's AT_BEGINNING_LINE).
AtLineStart(s, i) == i = 0 \/ s[i] = "\n"

RECURSIVE SubFrom(_, _, _)
\* The scan of quote_post_re.sub(repl, s) from offset i on: at every offset
\* where the pattern matches, the replacement is emitted; the characters of
\* s are copied between the matches (the matches are all empty, so nothing
\* of s is consumed).
SubFrom(repl, s, i) ==
    (IF AtLineStart(s, i) THEN repl ELSE <<>>)
        \o (IF i < Len(s) THEN <<s[i + 1]>> \o SubFrom(repl, s, i + 1)
            ELSE <<>>)

\* quote_post_re.sub('> ', body)
quote_post_re_sub(repl, s) == SubFrom(repl, s, 0)

RECURSIVE Replace(_, _, _)
\* unicode.replace(c, r) for a one-character c.
Replace(s, c, r) ==
    IF s = <<>> THEN <<>>
    ELSE (IF Head(s) = c THEN r ELSE <<Head(s)>>) \o Replace(Tail(s), c, r)

AMP  == <<"&", "a", "m", "p", ";">>
LT   == <<"&", "l", "t", ";">>
GT   == <<"&", "g", "t", ";">>
QUOT == <<"&", "q", "u", "o", "t", ";">>
APOS == <<"&", "#", "3", "9", ";">>

\* django.utils.html.escape: the five replacements, '&' first.
escape(s) ==
    Replace(Replace(Replace(Replace(Replace(s,
        "&", AMP), "<", LT), ">", GT), "\"", QUOT), "'", APOS)

RECURSIVE PercentFormat(_, _)
\* fmt % args for a format string whose only conversions are %s.
PercentFormat(fmt, args) ==
    IF fmt = <<>> THEN <<>>
    ELSE IF Len(fmt) >= 2 /\ fmt[1] = "%" /\ fmt[2] = "s"
         THEN Head(args) \o PercentFormat(SubSeq(fmt, 3, Len(fmt)), Tail(args))
         ELSE <<fmt[1]>> \o PercentFormat(Tail(fmt), args)

\* The format with one line break, not two, after the attribution line.
QUOTE_FORMAT_one_break ==
    <<"*", "*", "%", "s", "*", "*", " ", "[", "w", "r", "o", "t", "e", "]",
      "(", "%", "s", " ", "\"", "V", "i", "e", "w", " ", "q", "u", "o", "t",
      "e", "d", " ", "p", "o", "s", "t", "\"", ")", ":", "\n", "%", "s",
      "\n", "\n">>

\* u'**%s** [wrote](%s "View quoted post"):\n\n%s\n\n'
QUOTE_FORMAT ==
    <<"*", "*", "%", "s", "*", "*", " ", "[", "w", "r", "o", "t", "e", "]",
      "(", "%", "s", " ", "\"", "V", "i", "e", "w", " ", "q", "u", "o", "t",
      "e", "d", " ", "p", "o", "s", "t", "\"", ")", ":", "\n", "\n", "%",
      "s", "\n", "\n">>

\* quote_post with the username interpolated as it is.
quote_post_unescaped(post) ==
    PercentFormat(QUOTE_FORMAT,
                  <<post.username, post.url, quote_post_re_sub(<<">", " ">>, post.body)>>)

\* quote_post(post): post.user.username, post.get_absolute_url() and
\* post.body are the fields username, url and body of the record.
quote_post(post) ==
    PercentFormat(QUOTE_FORMAT,
                  <<escape(post.username), post.url,
                    quote_post_re_sub(<<">", " ">>, post.body)>>)

\* The characters unicode.strip() removes (ASCII whitespace).
Whitespace == {" ", "\t", "\n", "\r", "\f"}

RECURSIVE LStrip(_)
LStrip(s) == IF s # <<>> /\ Head(s) \in Whitespace THEN LStrip(Tail(s)) ELSE s

RECURSIVE RStrip(_)
RStrip(s) ==
    IF s # <<>> /\ s[Len(s)] \in Whitespace
    THEN RStrip(SubSeq(s, 1, Len(s) - 1)) ELSE s

\* unicode.strip()
Strip(s) == RStrip(LStrip(s))


\* What safe mode puts in place of raw HTML.
HTML_REMOVED ==
    <<"[", "H", "T", "M", "L", "_", "R", "E", "M", "O", "V", "E", "D", "]">>

RECURSIVE RemoveRawHtml(_)
\* Safe mode: every raw tag '<...>' of the text is replaced by the
\* placeholder; a '<' that opens no tag is entity-encoded.
RemoveRawHtml(s) ==
    IF s = <<>> THEN <<>>
    ELSE IF Head(s) = "<"
         THEN LET closing == {i \in 2..Len(s) : s[i] = ">"}
              IN  IF closing = {} THEN LT \o RemoveRawHtml(Tail(s))
                  ELSE LET j == CHOOSE i \in closing : \A k \in closing : i <= k
                       IN  HTML_REMOVED \o RemoveRawHtml(SubSeq(s, j + 1, Len(s)))
         ELSE <<Head(s)>> \o RemoveRawHtml(Tail(s))

\* markdown(body, safe_mode=True): the host renderer.  A blank source
\* renders to the empty string; otherwise the text, its raw HTML removed,
\* is wrapped as the renderer wraps a paragraph, '\n<p>' ... '\n</p>\n\n\n'
\* (the output the doctests of mdx_emoticons.py show).
markdown_safe(body) ==
    IF Strip(body) = <<>> THEN <<>>
    ELSE <<"\n", "<", "p", ">">> \o RemoveRawHtml(body)
             \o <<"\n", "<", "/", "p", ">", "\n", "\n", "\n">>

\* format_post_body dropping only the leading whitespace.
format_post_body_lstrip(body) == LStrip(markdown_safe(body))

\* format_post_body(body)
format_post_body(body) == Strip(markdown_safe(body))

-----------------------------------------------------------------------------
(* formatters/mdx_emoticons.py                                             *)

\* A dict is its items, <<key, value>> pairs in insertion order, together
\* with the order in which keys() iterates them.  The extension runs on the
\* interpreters python-markdown 1.6 runs on, where a dict iterates in hash
\* order: the iteration order is fixed when the dict is built, and is not
\* the insertion order in general.
KeysOf(items) == [i \in 1..Len(items) |-> items[i][1]]

Reverse(s) == [i \in 1..Len(s) |-> s[Len(s) + 1 - i]]

\* The iteration orders explored for a dict of these items.  The match at an
\* offset depends only on the relative order of keys of which one is a
\* prefix of the other; the insertion order and its reverse give both
\* relative orders of every such pair.
IterationOrders(items) == {KeysOf(items), Reverse(KeysOf(items))}

Dicts(items) == {[items |-> items, keys |-> o] : o \in IterationOrders(items)}

\* dict.keys()
DictKeys(d) == d.keys

\* key in dict
DictHas(d, k) == \E i \in 1..Len(d.items) : d.items[i][1] = k

\* dict[key], for a key of the dict
DictGet(d, k) == d.items[CHOOSE i \in 1..Len(d.items) : d.items[i][1] = k][2]

\* The built-in table of __init__.
DEFAULT_EMOTICONS ==
    <<<<<<":", "a", "n", "g", "r", "y", ":">>,
        <<"a", "n", "g", "r", "y">>>>,
      <<<<":", "b", "l", "i", "n", "k", ":">>,
        <<"b", "l", "i", "n", "k">>>>,
      <<<<":", "D">>,
        <<"g", "r", "i", "n">>>>,
      <<<<":", "h", "u", "h", ":">>,
        <<"h", "u", "h">>>>,
      <<<<":", "l", "o", "l", ":">>,
        <<"l", "o", "l">>>>,
      <<<<":", "o">>,
        <<"o", "h", "m", "y">>>>,
      <<<<":", "p", "h", "3", "4", "r", ":">>,
        <<"p", "h", "3", "4", "r">>>>,
      <<<<":", "r", "o", "l", "l", "e", "y", "e", "s", ":">>,
        <<"r", "o", "l", "l", "e", "y", "e", "s">>>>,
      <<<<":", "(">>,
        <<"s", "a", "d">>>>,
      <<<<":", ")">>,
        <<"s", "m", "i", "l", "e">>>>,
      <<<<":", "p">>,
        <<"t", "o", "n", "g", "u", "e">>>>,
      <<<<":", "u", "n", "s", "u", "r", "e", ":">>,
        <<"u", "n", "s", "u", "r", "e">>>>,
      <<<<":", "w", "a", "c", "k", "o", ":">>,
        <<"w", "a", "c", "k", "o">>>>,
      <<<<";", ")">>,
        <<"w", "i", "n", "k">>>>,
      <<<<":", "w", "u", "b", ":">>,
        <<"w", "u", "b">>>>>>

DEFAULT_BASE_URL == <<>>
DEFAULT_FILE_EXTENSION == <<"g", "i", "f">>

\* self.config as __init__ first builds it (the values; the description
\* beside each value is never touched); d is the built-in table as a dict.
DefaultConfig(d) ==
    [EMOTICONS |-> d,
     BASE_URL |-> DEFAULT_BASE_URL,
     FILE_EXTENSION |-> DEFAULT_FILE_EXTENSION]

RECURSIVE ApplyConfigs_update(_, _)
\* The loop of __init__ adding a supplied EMOTICONS mapping to the table in
\* place (dict.update) instead of replacing the table.
ApplyConfigs_update(cfg, configs) ==
    IF configs = <<>> THEN cfg
    ELSE LET key   == Head(configs)[1]
             value == Head(configs)[2]
             old   == cfg.EMOTICONS
             kept  == SelectSeq(old.items, LAMBDA it : ~DictHas(value, it[1]))
             keptKeys == SelectSeq(old.keys, LAMBDA k : ~DictHas(value, k))
         IN  ApplyConfigs_update(
                 IF key = "EMOTICONS"
                 THEN [cfg EXCEPT !.EMOTICONS =
                          [items |-> kept \o value.items,
                           keys |-> keptKeys \o value.keys]]
                 ELSE [cfg EXCEPT ![key] = value],
                 Tail(configs))

RECURSIVE ApplyConfigs(_, _)
\* for key, value in configs: self.config[key][0] = value
ApplyConfigs(cfg, configs) ==
    IF configs = <<>> THEN cfg
    ELSE ApplyConfigs([cfg EXCEPT ![Head(configs)[1]] = Head(configs)[2]],
                      Tail(configs))

\* string.ascii_letters + string.digits: what re.escape leaves alone.
Alphanumeric ==
    {"a", "b", "c", "d", "e", "f", "g", "h", "i", "j", "k", "l", "m", "n",
     "o", "p", "q", "r", "s", "t", "u", "v", "w", "x", "y", "z", "A", "B",
     "C", "D", "E", "F", "G", "H", "I", "J", "K", "L", "M", "N", "O", "P",
     "Q", "R", "S", "T", "U", "V", "W", "X", "Y", "Z", "0", "1", "2", "3",
     "4", "5", "6", "7", "8", "9"}

\* re.escape(s): a backslash before every character that is not
\* alphanumeric.
re_escape(s) ==
    Flatten([i \in 1..Len(s) |->
                IF s[i] \in Alphanumeric THEN <<s[i]>> ELSE <<"\\", s[i]>>])

RECURSIVE Join(_, _)
\* sep.join(strings)
Join(sep, ss) ==
    IF ss = <<>> THEN <<>>
    ELSE IF Len(ss) = 1 THEN ss[1]
         ELSE ss[1] \o sep \o Join(sep, Tail(ss))

GROUP_OPEN ==
    <<"(", "?", "P", "<", "e", "m", "o", "t", "i", "c", "o", "n", ">">>

\* EMOTICON_RE with the alternatives joined in the reverse of keys().
EMOTICON_RE_reversed(cfg) ==
    LET keys == Reverse(DictKeys(cfg.EMOTICONS))
    IN  GROUP_OPEN
            \o Join(<<"|">>, [i \in 1..Len(keys) |-> re_escape(keys[i])])
            \o <<")">>

\* EMOTICON_RE = '(?P<emoticon>%s)' % '|'.join(
\*     [re.escape(emoticon) for emoticon in self.getConfig('EMOTICONS').keys()])
EMOTICON_RE(cfg) ==
    LET keys == DictKeys(cfg.EMOTICONS)
    IN  GROUP_OPEN
            \o Join(<<"|">>, [i \in 1..Len(keys) |-> re_escape(keys[i])])
            \o <<")">>

\* The compiled pattern: the body of the group 'emoticon' (the group is the
\* whole pattern) parsed into its alternatives, each a sequence of atoms.
\* '\c' is the literal c, '|' separates alternatives, '.' matches any
\* character, any other character is itself.
Literal(c) == [any |-> FALSE, c |-> c]
AnyChar    == [any |-> TRUE, c |-> "."]

\* The number of backslashes that stand right before position i of p.
BackslashRun(p, i) ==
    Cardinality({k \in 1..(i - 1) : \A j \in k..(i - 1) : p[j] = "\\"})

\* The character at position i is escaped by a backslash before it.
Escaped(p, i) == BackslashRun(p, i) % 2 = 1

\* The character at position i is a backslash that escapes the next one.
Escapes(p, i) == p[i] = "\\" /\ ~Escaped(p, i) /\ i < Len(p)

\* The atom the character at position i stands for.
AtomAt(p, i) ==
    IF ~Escaped(p, i) /\ p[i] = "." THEN AnyChar ELSE Literal(p[i])

\* The atoms of positions a..b of p.
AtomsBetween(p, a, b) ==
    LET positions == SelectSeq([j \in 1..(b + 1 - a) |-> a + j - 1],
                               LAMBDA i : ~Escapes(p, i))
    IN  [j \in 1..Len(positions) |-> AtomAt(p, positions[j])]

\* The alternatives of the pattern body p, in the order of the pattern.
ParseAlternation(p) ==
    LET bars   == {i \in 1..Len(p) : p[i] = "|" /\ ~Escaped(p, i)}
        bar(k) == IF k = 0 THEN 0
                  ELSE IF k > Cardinality(bars) THEN Len(p) + 1
                  ELSE CHOOSE i \in bars : Cardinality({t \in bars : t < i}) = k - 1
    IN  [k \in 1..(Cardinality(bars) + 1) |->
            AtomsBetween(p, bar(k - 1) + 1, bar(k) - 1)]

re_compile(pattern) ==
    ParseAlternation(SubSeq(pattern, Len(GROUP_OPEN) + 1, Len(pattern) - 1))

\* The alternative alt matches text at offset i.
AltMatchesAt(alt, text, i) ==
    /\ i + Len(alt) <= Len(text)
    /\ \A k \in 1..Len(alt) : alt[k].any \/ alt[k].c = text[i + k]

\* The alternative the regex engine takes at offset i: the first, in the
\* order of the pattern, that matches there; 0 when none does.
FirstMatch(alts, text, i) ==
    LET ok == {k \in 1..Len(alts) : AltMatchesAt(alts[k], text, i)}
    IN  IF ok = {} THEN 0 ELSE CHOOSE k \in ok : \A j \in ok : k <= j

\* '%s%s.%s'
SRC_FORMAT == <<"%", "s", "%", "s", ".", "%", "s">>

\* A node of the rendered fragment: an img element with its two
\* attributes, or a character of text (tag "text", the character in alt).
TextNode(c) == [tag |-> "text", src |-> <<>>, alt |-> <<c>>]

\* handleMatch setting alt to the image's URL.
handleMatch_alt_src(cfg, emoticon) ==
    IF ~DictHas(cfg.EMOTICONS, emoticon)
    THEN [tag |-> "KeyError", src |-> <<>>, alt |-> emoticon]
    ELSE LET src == PercentFormat(SRC_FORMAT,
                        <<cfg.BASE_URL, DictGet(cfg.EMOTICONS, emoticon),
                          cfg.FILE_EXTENSION>>)
         IN  [tag |-> "img", src |-> src, alt |-> src]

\* handleMatch leaving the file extension out of src.
handleMatch_no_extension(cfg, emoticon) ==
    IF ~DictHas(cfg.EMOTICONS, emoticon)
    THEN [tag |-> "KeyError", src |-> <<>>, alt |-> emoticon]
    ELSE [tag |-> "img",
          src |-> cfg.BASE_URL \o DictGet(cfg.EMOTICONS, emoticon),
          alt |-> emoticon]

\* EmoticonPattern.handleMatch(m, doc), emoticon being m.group('emoticon'):
\* the img element, or the KeyError of the table lookup.
handleMatch(cfg, emoticon) ==
    IF ~DictHas(cfg.EMOTICONS, emoticon)
    THEN [tag |-> "KeyError", src |-> <<>>, alt |-> emoticon]
    ELSE [tag |-> "img",
          src |-> PercentFormat(SRC_FORMAT,
                      <<cfg.BASE_URL, DictGet(cfg.EMOTICONS, emoticon),
                        cfg.FILE_EXTENSION>>),
          alt |-> emoticon]

RECURSIVE ScanFrom(_, _, _, _)
\* The host renderer applying the inline pattern to text from offset i on:
\* matches are taken left to right and do not overlap; each is handed to
\* handleMatch; after an empty match the scan moves on by one character.
ScanFrom(alts, cfg, text, i) ==
    LET k    == FirstMatch(alts, text, i)
        step == IF i < Len(text)
                THEN <<TextNode(text[i + 1])>> \o ScanFrom(alts, cfg, text, i + 1)
                ELSE <<>>
    IN  IF k = 0 THEN step
        ELSE LET n    == Len(alts[k])
                 node == handleMatch(cfg, SubSeq(text, i + 1, i + n))
             IN  IF n = 0 THEN <<node>> \o step
                 ELSE <<node>> \o ScanFrom(alts, cfg, text, i + n)

\* EmoticonPattern(EMOTICON_RE, self): markdown.Pattern.__init__ keeps the
\* pattern and compiles it, once.
EmoticonPattern(pattern) ==
    [pattern |-> pattern, compiled_re |-> re_compile(pattern)]

\* One render of text under a registered pattern: the fragment, or the
\* KeyError handleMatch raised.
ApplyInlinePattern(pat, cfg, text) ==
    LET nodes == ScanFrom(pat.compiled_re, cfg, text, 0)
    IN  IF \E i \in 1..Len(nodes) : nodes[i].tag = "KeyError"
        THEN [kind |-> "raise", exc |-> "KeyError", nodes |-> <<>>]
        ELSE [kind |-> "value", exc |-> "", nodes |-> nodes]

-----------------------------------------------------------------------------
(* Inputs of the post formatter.                                           *)

SCRIPT_TAG == <<"<", "s", "c", "r", "i", "p", "t", ">">>
BOB        == <<"b", "o", "b">>
POSTS_1    == <<"/", "p", "o", "s", "t", "s", "/", "1">>
HELLO      == <<"h", "e", "l", "l", "o">>

NameAlphabet == {"b", "<", "&"}

\* '\n' is the line break; '\r' is a character like any other to the pattern.
BodyAlphabet == {"a", "\n", "\r", ">", " "}

Usernames ==
    SeqsUpTo(NameAlphabet, MaxNameLen)
        \cup {BOB, SCRIPT_TAG, <<"a", "\"", "'", ">">>}

Urls == {POSTS_1, <<"/", "p", "?", "<", "&", ">">>}

Bodies ==
    SeqsUpTo(BodyAlphabet, MaxBodyLen)
        \cup {HELLO, <<"a", "\n", "b">>,
              <<"<", "s", "c", "r", "i", "p", "t", ">", "x">>,
              <<" ", "<", "s", "c", "r", "i", "p", "t", ">", "a", "l", "e",
                "r", "t", "(", "1", ")", "<", "/", "s", "c", "r", "i", "p",
                "t", ">">>}

Posts == [username : Usernames, url : Urls, body : Bodies]

-----------------------------------------------------------------------------
(* The operations.  Both modules are stateless between calls: a behaviour  *)
(* is one call of the post formatter, or the life of one extension         *)
(* instance.                                                               *)

NoCall == [op |-> "none"]
NoRet  == [kind |-> "none"]

NoConfig == [EMOTICONS |-> <<>>, BASE_URL |-> <<>>, FILE_EXTENSION |-> <<>>]

Init ==
    /\ call = NoCall
    /\ ret = NoRet
    /\ ext = "none"
    /\ config = NoConfig
    /\ supplied = <<>>
    /\ inlinePatterns = <<>>

\* A call of quote_post(post).
QuotePost ==
    /\ call = NoCall
    /\ \E post \in Posts :
          /\ call' = [op |-> "quote_post", post |-> post]
          /\ ret' = [kind |-> "value", val |-> quote_post(post)]
    /\ UNCHANGED <<ext, config, supplied, inlinePatterns>>

\* A call of format_post_body(body); html is what the renderer returned.
FormatPostBody ==
    /\ call = NoCall
    /\ \E body \in Bodies :
          /\ call' = [op |-> "format_post_body", body |-> body]
          /\ ret' = [kind |-> "value", html |-> markdown_safe(body),
                     val |-> format_post_body(body)]
    /\ UNCHANGED <<ext, config, supplied, inlinePatterns>>

NextPost == QuotePost \/ FormatPostBody

SpecPost == Init /\ [][NextPost]_vars

-----------------------------------------------------------------------------
(* Inputs of the emoticon extension.                                       *)

\* {':p': 'cheeky'}, the table of the doctest
CHEEKY_ITEMS == <<<<<<":", "p">>, <<"c", "h", "e", "e", "k", "y">>>>>>

\* {}
EMPTY_ITEMS == <<>>

\* {'': 'blank', ':p': 'cheeky'}: a table with the empty string as a key
BLANK_ITEMS ==
    <<<<<<>>, <<"b", "l", "a", "n", "k">>>>,
      <<<<":", "p">>, <<"c", "h", "e", "e", "k", "y">>>>>>

\* {':)': 'smile', ':))': 'laugh'}: a key that is a prefix of another
LAUGH_ITEMS ==
    <<<<<<":", ")">>, <<"s", "m", "i", "l", "e">>>>,
      <<<<":", ")", ")">>, <<"l", "a", "u", "g", "h">>>>>>

\* {':|': 'neutral', ':.': 'dot'}: keys with pattern metacharacters
META_ITEMS ==
    <<<<<<":", "|">>, <<"n", "e", "u", "t", "r", "a", "l">>>>,
      <<<<":", ".">>, <<"d", "o", "t">>>>>>

CustomItems == {CHEEKY_ITEMS, EMPTY_ITEMS, BLANK_ITEMS, LAUGH_ITEMS, META_ITEMS}

CustomDicts == UNION {Dicts(items) : items \in CustomItems}

BaseUrls == {DEFAULT_BASE_URL, <<"/", "e", "/">>}
FileExtensions == {DEFAULT_FILE_EXTENSION, <<"p", "n", "g">>}

\* The (OPTION, value) pairs a configuration list is made of.
OptionPairs ==
    {<<"EMOTICONS", d>> : d \in CustomDicts}
        \cup {<<"BASE_URL", <<"/", "e", "/">>>>,
              <<"FILE_EXTENSION", <<"p", "n", "g">>>>}

\* The configs argument: None (the default of makeExtension), or a list.
ConfigInputs ==
    {[none |-> TRUE, list |-> <<>>]}
        \cup {[none |-> FALSE, list |-> l] : l \in SeqsUpTo(OptionPairs, MaxConfigs)}

\* The configuration lists that leave the built-in table in place.
DefaultTableInputs ==
    {c \in ConfigInputs :
        ~c.none /\ \A i \in 1..Len(c.list) : c.list[i][1] # "EMOTICONS"}

DefaultSymbols == {DEFAULT_EMOTICONS[i][1] : i \in 1..Len(DEFAULT_EMOTICONS)}

\* Texts over every built-in symbol, for the instances that keep the
\* built-in table.
SymbolPieces == DefaultSymbols \cup {<<"x">>, <<":">>, <<")">>}

SymbolTexts == {Flatten(ps) : ps \in SeqsUpTo(SymbolPieces, MaxPieces)}

\* Texts for every table: some built-in symbols, among them ':p' and
\* ':ph34r:' of which one is a prefix of the other, and the characters the
\* custom tables' keys are made of; and every built-in symbol alone.
TextPieces ==
    {<<":", "p">>, <<":", "p", "h", "3", "4", "r", ":">>, <<":", ")">>,
     <<":", "h", "u", "h", ":">>, <<"x">>, <<":">>, <<")">>, <<"|">>, <<".">>}

Texts ==
    {Flatten(ps) : ps \in SeqsUpTo(TextPieces, MaxPieces)} \cup DefaultSymbols

-----------------------------------------------------------------------------
(* The operations of the emoticon extension.                               *)

\* The options a configuration list names, each with its last value.
Supplied(list) ==
    [o \in {list[i][1] : i \in 1..Len(list)} |->
        LET last == CHOOSE i \in 1..Len(list) :
                       /\ list[i][1] = o
                       /\ \A j \in (i + 1)..Len(list) : list[j][1] # o
        IN  list[last][2]]

\* makeExtension(configs) = EmoticonExtension(configs): __init__ builds the
\* default configuration and then iterates over configs, which raises
\* TypeError when configs is None.
MakeExtensionOf(inputs) ==
    /\ call = NoCall
    /\ ext = "none"
    /\ \E configs \in inputs, d \in Dicts(DEFAULT_EMOTICONS) :
          /\ call' = [op |-> "makeExtension", configs |-> configs]
          /\ supplied' = Supplied(configs.list)
          /\ IF configs.none
             THEN /\ ext' = "TypeError"
                  /\ config' = NoConfig
                  /\ ret' = [kind |-> "raise", exc |-> "TypeError", nodes |-> <<>>]
             ELSE /\ ext' = "ok"
                  /\ config' = ApplyConfigs(DefaultConfig(d), configs.list)
                  /\ ret' = [kind |-> "value", exc |-> "", nodes |-> <<>>]
    /\ UNCHANGED inlinePatterns

\* extendMarkdown(md, md_globals): the pattern is built from the table and
\* appended to md.inlinePatterns.
ExtendMarkdown ==
    /\ ext = "ok"
    /\ call.op = "makeExtension"
    /\ inlinePatterns' = Append(inlinePatterns, EmoticonPattern(EMOTICON_RE(config)))
    /\ call' = [op |-> "extendMarkdown"]
    /\ ret' = [kind |-> "value", exc |-> "", nodes |-> <<>>]
    /\ UNCHANGED <<ext, config, supplied>>

\* A render: the host applies the registered pattern to a text, calling
\* handleMatch for every match.
RenderOf(texts) ==
    /\ ext = "ok"
    /\ call.op = "extendMarkdown"
    /\ \E text \in texts :
          /\ call' = [op |-> "render", text |-> text]
          /\ ret' = ApplyInlinePattern(inlinePatterns[1], config, text)
    /\ UNCHANGED <<ext, config, supplied, inlinePatterns>>

\* Any configuration, rendering the texts made for every table.
MakeExtension == MakeExtensionOf(ConfigInputs)
Render == RenderOf(Texts)

NextEmoticons == MakeExtension \/ ExtendMarkdown \/ Render

SpecEmoticons == Init /\ [][NextEmoticons]_vars

\* The built-in table kept, rendering the texts over all its symbols.
MakeDefaultExtension == MakeExtensionOf(DefaultTableInputs)
RenderSymbols == RenderOf(SymbolTexts)

NextDefaultTable == MakeDefaultExtension \/ ExtendMarkdown \/ RenderSymbols

SpecDefaultTable == Init /\ [][NextDefaultTable]_vars

\* The two modules together.
Next == NextPost \/ NextEmoticons

Spec == Init /\ [][Next]_vars

-----------------------------------------------------------------------------
(* Properties of the post formatter.                                       *)

\* The fixed parts of the quote.
WROTE_OPEN  == <<"*", "*", " ", "[", "w", "r", "o", "t", "e", "]", "(">>
WROTE_CLOSE ==
    <<" ", "\"", "V", "i", "e", "w", " ", "q", "u", "o", "t", "e", "d", " ",
      "p", "o", "s", "t", "\"", ")", ":">>
TWO_BREAKS  == <<"\n", "\n">>

\* The entity of one character.
CharEntity(c) ==
    CASE c = "&"  -> AMP
      [] c = "<"  -> LT
      [] c = ">"  -> GT
      [] c = "\"" -> QUOT
      [] c = "'"  -> APOS
      [] OTHER    -> <<c>>

\* The entity-encoded form of s, character by character.
EntityEncoded(s) == Flatten([i \in 1..Len(s) |-> CharEntity(s[i])])

\* The offsets at which a line of s starts.
LineStarts(s) == {0} \cup {i \in 1..Len(s) : s[i] = "\n"}

RECURSIVE DeleteMarkers(_)
RECURSIVE CopyLine(_)
\* s with the first two characters of every line deleted.
DeleteMarkers(s) == CopyLine(SubSeq(s, 3, Len(s)))
CopyLine(r) ==
    IF r = <<>> THEN <<>>
    ELSE IF Head(r) = "\n" THEN <<"\n">> \o DeleteMarkers(Tail(r))
         ELSE <<Head(r)>> \o CopyLine(Tail(r))

Quoted == call.op = "quote_post" /\ ret.kind = "value"

\* The parts of a returned quote, cut out of it by position: the two
\* characters before the attribution, the attribution (as long as the
\* encoded username), and what follows, up to the last two characters.
QuoteHead(q)        == SubSeq(q, 1, 2)
QuoteAttribution(q) == SubSeq(q, 3, 2 + Len(EntityEncoded(call.post.username)))
QuoteAfterName(q)   ==
    SubSeq(q, 3 + Len(EntityEncoded(call.post.username)), Len(q))
QuoteBody(q)        ==
    LET rest == QuoteAfterName(q)
        skip == Len(WROTE_OPEN) + Len(call.post.url) + Len(WROTE_CLOSE) + 2
    IN  SubSeq(rest, skip + 1, Len(rest) - 2)

\* C1: quote_post returns exactly '**' + escaped username + '** [wrote](' +
\* post URL + ' "View quoted post"):' + two line breaks + quoted body + two
\* line breaks, and nothing else; bob's post "hello" at /posts/1 gives
\* '**bob** [wrote](/posts/1 "View quoted post"):\n\n> hello\n\n'.
C1_QuoteLayout ==
    Quoted =>
        /\ ret.val = <<"*", "*">> \o QuoteAttribution(ret.val) \o WROTE_OPEN
                        \o call.post.url \o WROTE_CLOSE \o TWO_BREAKS
                        \o QuoteBody(ret.val) \o TWO_BREAKS
        /\ QuoteAttribution(ret.val) = EntityEncoded(call.post.username)
        /\ DeleteMarkers(QuoteBody(ret.val)) = call.post.body
        /\ Len(ret.val) = 2 + Len(EntityEncoded(call.post.username))
                            + Len(WROTE_OPEN) + Len(call.post.url)
                            + Len(WROTE_CLOSE) + 2
                            + Len(call.post.body)
                            + 2 * (CountChar(call.post.body, "\n") + 1) + 2
        /\ (call.post = [username |-> BOB, url |-> POSTS_1, body |-> HELLO]
              => ret.val =
                   <<"*", "*", "b", "o", "b", "*", "*", " ", "[", "w", "r",
                     "o", "t", "e", "]", "(", "/", "p", "o", "s", "t", "s",
                     "/", "1", " ", "\"", "V", "i", "e", "w", " ", "q", "u",
                     "o", "t", "e", "d", " ", "p", "o", "s", "t", "\"", ")",
                     ":", "\n", "\n", ">", " ", "h", "e", "l", "l", "o",
                     "\n", "\n">>)

\* bob's post has been quoted.
C1_Witness ==
    /\ Quoted
    /\ call.post = [username |-> BOB, url |-> POSTS_1, body |-> HELLO]
    /\ Len(ret.val) = 56

\* C2: the quoted body is the body with "> " inserted at the start of every
\* line and nowhere else: every line of it begins with "> ", the markers
\* are one more than the line breaks of the body, and deleting them gives
\* the body back ("a\nb" gives "> a\n> b").
C2_QuotedBody ==
    Quoted =>
        LET body == call.post.body
            qb   == QuoteBody(ret.val)
        IN  /\ \A i \in LineStarts(qb) : StartsWithAt(qb, <<">", " ">>, i)
            /\ Cardinality(LineStarts(qb)) = CountChar(body, "\n") + 1
            /\ Len(qb) = Len(body) + 2 * (CountChar(body, "\n") + 1)
            /\ DeleteMarkers(qb) = body
            /\ (body = <<"a", "\n", "b">>
                  => qb = <<">", " ", "a", "\n", ">", " ", "b">>)
            /\ (body = <<>> => qb = <<">", " ">>)
            /\ (body = <<"a", "\n">> => qb = <<">", " ", "a", "\n", ">", " ">>)

\* A body of two lines that ends with a line break has been quoted: three
\* markers.
C2_Witness ==
    /\ Quoted
    /\ call.post.body = <<"a", "\n", "\n">>
    /\ QuoteBody(ret.val) = <<">", " ", "a", "\n", ">", " ", "\n", ">", " ">>

\* The entities escape produces.
Entities == {AMP, LT, GT, QUOT, APOS}

\* C3: the attribution between '**' and '** [wrote](' is the
\* entity-encoded username: no raw '<' or '>' in it, and every '&' of it
\* starts an entity; the URL and the body are interpolated as they are.
C3_UsernameEscaped ==
    Quoted =>
        LET attr == QuoteAttribution(ret.val)
            rest == QuoteAfterName(ret.val)
        IN  /\ QuoteHead(ret.val) = <<"*", "*">>
            /\ attr = EntityEncoded(call.post.username)
            /\ \A i \in 1..Len(attr) : attr[i] \notin {"<", ">", "\"", "'"}
            /\ \A i \in 1..Len(attr) :
                  attr[i] = "&" => \E e \in Entities : StartsWithAt(attr, e, i - 1)
            /\ StartsWithAt(rest, WROTE_OPEN \o call.post.url \o WROTE_CLOSE, 0)
            /\ DeleteMarkers(QuoteBody(ret.val)) = call.post.body
            /\ (call.post.username = SCRIPT_TAG
                  => attr = <<"&", "l", "t", ";", "s", "c", "r", "i", "p", "t",
                              "&", "g", "t", ";">>)

\* A post by the user "<script>", at a URL that holds '<' and '&', has been
\* quoted.
C3_Witness ==
    /\ Quoted
    /\ call.post.username = SCRIPT_TAG
    /\ call.post.url = <<"/", "p", "?", "<", "&", ">">>
    /\ Contains(ret.val, <<"(", "/", "p", "?", "<", "&", ">", " ">>)

Formatted == call.op = "format_post_body" /\ ret.kind = "value"

\* C7: format_post_body returns the safe-mode rendering of the body with
\* the surrounding whitespace removed: the result neither starts nor ends
\* with whitespace, is the renderer's output but for whitespace at its two
\* ends, and holds no raw <script> tag.
C7_FormatTrimmed ==
    Formatted =>
        /\ ret.val # <<>> =>
              ret.val[1] \notin Whitespace /\ ret.val[Len(ret.val)] \notin Whitespace
        /\ \E i \in 0..Len(ret.html) :
              /\ StartsWithAt(ret.html, ret.val, i)
              /\ \A k \in 1..Len(ret.html) :
                    (k <= i \/ k > i + Len(ret.val)) => ret.html[k] \in Whitespace
        /\ ~Contains(ret.val, SCRIPT_TAG)

\* A body with a raw <script> tag has been formatted, and the renderer's
\* output had whitespace at both ends.
C7_Witness ==
    /\ Formatted
    /\ Contains(call.body, SCRIPT_TAG)
    /\ ret.html # <<>>
    /\ ret.html[1] \in Whitespace
    /\ ret.html[Len(ret.html)] \in Whitespace
    /\ Len(ret.val) < Len(ret.html)

-----------------------------------------------------------------------------
(* Properties of the emoticon extension.                                   *)

Rendered   == call.op = "render"
RenderedOk == Rendered /\ ret.kind = "value"

\* The positions of the image elements of a fragment.
Images(nodes) == {i \in 1..Len(nodes) : nodes[i].tag = "img"}

\* The fragment read back as text, every image by its alt attribute.
TextOf(nodes) == Flatten([i \in 1..Len(nodes) |-> nodes[i].alt])

RECURSIVE LenUpTo(_, _)
\* The offset in the text at which node k + 1 starts.
LenUpTo(nodes, k) ==
    IF k = 0 THEN 0 ELSE LenUpTo(nodes, k - 1) + Len(nodes[k].alt)

\* The image name the items give a key.
ImageName(items, key) ==
    items[CHOOSE i \in 1..Len(items) : items[i][1] = key][2]

\* BaseURL + ImageName + "." + FileExtension
SrcOf(base, name, extension) == base \o name \o <<".">> \o extension

\* The keys of the items, as a set.
KeySet(items) == {items[i][1] : i \in 1..Len(items)}

\* An occurrence of another key of the items overlaps the occurrence of
\* key at offset i of text.
Overlapped(items, text, key, i) ==
    \E other \in KeySet(items) \ {key} :
        \E j \in Occurrences(text, other) :
            j < i + Len(key) /\ i < j + Len(other)

BuiltInTable == config.EMOTICONS.items = DEFAULT_EMOTICONS

\* C4 as stated: every text containing a built-in symbol S renders to
\* exactly one image element with alt S, whose src is BaseURL +
\* ImageName(S) + "." + FileExtension.
C4_Original ==
    (RenderedOk /\ BuiltInTable) =>
        \A S \in DefaultSymbols :
            Contains(call.text, S) =>
                LET imgs == {i \in Images(ret.nodes) : ret.nodes[i].alt = S}
                IN  /\ Cardinality(imgs) = 1
                    /\ \A i \in imgs :
                          ret.nodes[i].src =
                              SrcOf(config.BASE_URL,
                                    ImageName(DEFAULT_EMOTICONS, S),
                                    config.FILE_EXTENSION)

\* C4, amended: under the built-in table every image element stands for
\* one match, its alt the matched symbol as written and its src BaseURL +
\* ImageName(alt) + "." + FileExtension; and a text in which S occurs
\* exactly once, overlapped by no occurrence of another symbol of the
\* table, renders to exactly one image element with alt S.  With the
\* defaults, ':p' gives src 'tongue.gif'.
C4_ImagePerMatch ==
    (Rendered /\ BuiltInTable) =>
        /\ ret.kind = "value"
        /\ TextOf(ret.nodes) = call.text
        /\ \A i \in Images(ret.nodes) :
              /\ ret.nodes[i].alt \in DefaultSymbols
              /\ ret.nodes[i].src =
                    SrcOf(config.BASE_URL,
                          ImageName(DEFAULT_EMOTICONS, ret.nodes[i].alt),
                          config.FILE_EXTENSION)
              /\ (/\ config.BASE_URL = <<>>
                  /\ config.FILE_EXTENSION = <<"g", "i", "f">>
                  /\ ret.nodes[i].alt = <<":", "p">>)
                    => ret.nodes[i].src =
                         <<"t", "o", "n", "g", "u", "e", ".", "g", "i", "f">>
        /\ \A S \in DefaultSymbols :
              LET occ == Occurrences(call.text, S)
              IN  (/\ Cardinality(occ) = 1
                   /\ \A i \in occ : ~Overlapped(DEFAULT_EMOTICONS, call.text, S, i))
                    => Cardinality({i \in Images(ret.nodes) :
                                        ret.nodes[i].alt = S}) = 1

\* The text ':rolleyes::p' has been rendered under the built-in table with
\* a base URL: one image for each of the two symbols.
C4_Witness ==
    /\ RenderedOk
    /\ BuiltInTable
    /\ config.BASE_URL = <<"/", "e", "/">>
    /\ call.text = <<":", "r", "o", "l", "l", "e", "y", "e", "s", ":", ":", "p">>
    /\ Len(ret.nodes) = 2
    /\ ret.nodes[1].src =
          <<"/", "e", "/", "r", "o", "l", "l", "e", "y", "e", "s", ".", "g",
            "i", "f">>
    /\ ret.nodes[2].alt = <<":", "p">>

\* C5: two renders that differ only in BASE_URL or FILE_EXTENSION give the
\* same image elements at the same positions with the same alt attributes,
\* around the same text; only the src attributes differ.
C5_OnlySrcDiffers ==
    Rendered =>
        \A b \in BaseUrls, e \in FileExtensions :
            LET other  == [config EXCEPT !.BASE_URL = b, !.FILE_EXTENSION = e]
                second == ApplyInlinePattern(inlinePatterns[1], other, call.text)
            IN  /\ EMOTICON_RE(other) = inlinePatterns[1].pattern
                /\ second.kind = ret.kind
                /\ Len(second.nodes) = Len(ret.nodes)
                /\ \A i \in 1..Len(ret.nodes) :
                      /\ second.nodes[i].tag = ret.nodes[i].tag
                      /\ second.nodes[i].alt = ret.nodes[i].alt
                      /\ ret.nodes[i].tag = "img" =>
                            second.nodes[i].src =
                                SrcOf(b,
                                      ImageName(config.EMOTICONS.items,
                                                ret.nodes[i].alt),
                                      e)

\* A text with a character and then a symbol has been rendered with a base
\* URL and a file extension of its own: the image's src is not the one the
\* defaults give.
C5_Witness ==
    /\ RenderedOk
    /\ config.BASE_URL = <<"/", "e", "/">>
    /\ config.FILE_EXTENSION = <<"p", "n", "g">>
    /\ Len(ret.nodes) = 2
    /\ ret.nodes[1].tag = "text"
    /\ ret.nodes[2].tag = "img"
    /\ ret.nodes[2].src #
          SrcOf(<<>>, ImageName(config.EMOTICONS.items, ret.nodes[2].alt),
                <<"g", "i", "f">>)

\* The string an alternative of the compiled pattern matches literally.
AltString(alt) == [k \in 1..Len(alt) |-> alt[k].c]

\* C6: a custom EMOTICONS mapping replaces the built-in table: the pattern
\* is built from the custom keys only, each custom key resolves to its
\* custom image name, and no built-in symbol that is not a custom key is
\* matched or replaced.  (The pattern of a mapping with no key has no
\* symbol in it: its one alternative is the empty string.)
C6_CustomReplaces ==
    (ext = "ok" /\ "EMOTICONS" \in DOMAIN supplied) =>
        LET custom == supplied["EMOTICONS"].items
            keys   == KeySet(custom)
        IN  /\ config.EMOTICONS = supplied["EMOTICONS"]
            /\ inlinePatterns # <<>> =>
                  LET alts == inlinePatterns[1].compiled_re
                      strs == {AltString(alts[k]) : k \in 1..Len(alts)}
                  IN  /\ keys \subseteq strs
                      /\ \A a \in strs : a \in keys \/ (keys = {} /\ a = <<>>)
                      /\ \A k \in 1..Len(alts) :
                             \A j \in 1..Len(alts[k]) : ~alts[k][j].any
                      /\ \A D \in DefaultSymbols \ keys : D \notin strs
            /\ Rendered =>
                  /\ \A i \in Images(ret.nodes) :
                        /\ ret.nodes[i].alt \in keys
                        /\ ret.nodes[i].src =
                              SrcOf(config.BASE_URL,
                                    ImageName(custom, ret.nodes[i].alt),
                                    config.FILE_EXTENSION)
                  /\ \A D \in DefaultSymbols \ keys :
                        \A i \in Images(ret.nodes) : ret.nodes[i].alt # D
                  /\ ret.kind = "value" => TextOf(ret.nodes) = call.text

\* Under the table {':p': 'cheeky'} a text with ':p' and the built-in ':)'
\* has been rendered: one image, 'cheeky', and ':)' left as text.
C6_Witness ==
    /\ RenderedOk
    /\ "EMOTICONS" \in DOMAIN supplied
    /\ supplied["EMOTICONS"].items = CHEEKY_ITEMS
    /\ call.text = <<":", "p", ":", ")">>
    /\ Cardinality(Images(ret.nodes)) = 1
    /\ ret.nodes[1].src = <<"c", "h", "e", "e", "k", "y", ".", "g", "i", "f">>
    /\ ret.nodes[2].tag = "text"

\* The keys of the sequence order that occur in text at offset o.
KeysAt(order, text, o) ==
    {k \in 1..Len(order) : StartsWithAt(text, order[k], o)}

\* The first key of order, if any, that occurs in text at offset o is key.
FirstAt(order, text, o, key) ==
    \E k \in KeysAt(order, text, o) :
        /\ order[k] = key
        /\ \A j \in KeysAt(order, text, o) : k <= j

\* The offsets of text that lie strictly inside an image of the fragment.
InsideImage(nodes) ==
    {o \in 0..Len(TextOf(nodes)) :
        \E i \in Images(nodes) :
            LenUpTo(nodes, i - 1) < o /\ o < LenUpTo(nodes, i)}

\* Matches are non-overlapping and taken left to right, every image being
\* the first key, in the given order of the table's keys, that occurs at
\* the image's offset.
LeftToRightFirstIn(order) ==
    /\ TextOf(ret.nodes) = call.text
    /\ \A i \in Images(ret.nodes) :
          FirstAt(order, call.text, LenUpTo(ret.nodes, i - 1), ret.nodes[i].alt)
    /\ \A o \in (0..Len(call.text)) \ InsideImage(ret.nodes) :
          KeysAt(order, call.text, o) # {} =>
              \E i \in Images(ret.nodes) : LenUpTo(ret.nodes, i - 1) = o

\* C8 as stated: when two symbols match at the same position, the one
\* replaced is the first in the table's insertion order.
C8_Original ==
    RenderedOk => LeftToRightFirstIn(KeysOf(config.EMOTICONS.items))

\* C8, amended: matches are non-overlapping and taken left to right, and
\* when two symbols match at the same position the one replaced is the
\* first in the alternation order of the pattern, which is the order in
\* which keys() iterates the table (not its insertion order), even when the
\* other one is longer.
C8_AlternationOrder ==
    RenderedOk => LeftToRightFirstIn(config.EMOTICONS.keys)

\* Under the built-in table iterated with ':p' before ':ph34r:', the text
\* ':ph34r:' has been rendered: the image is ':p', the shorter symbol.
C8_Witness ==
    /\ RenderedOk
    /\ BuiltInTable
    /\ config.EMOTICONS.keys # KeysOf(DEFAULT_EMOTICONS)
    /\ call.text = <<":", "p", "h", "3", "4", "r", ":">>
    /\ ret.nodes[1].tag = "img"
    /\ ret.nodes[1].alt = <<":", "p">>
    /\ Len(ret.nodes) = 6

\* The value an option has by default.
IsDefault(option, value) ==
    CASE option = "EMOTICONS"      -> value.items = DEFAULT_EMOTICONS
      [] option = "BASE_URL"       -> value = <<>>
      [] option = "FILE_EXTENSION" -> value = <<"g", "i", "f">>

\* C9 as stated: for every configuration input, the absent one (None)
\* included, construction does not fail, the configuration holds the
\* supplied value of each listed option and the default of every other,
\* and no render changes the configuration.
C9_Original ==
    [][/\ call'.op = "makeExtension" =>
            /\ ext' = "ok"
            /\ ret'.kind = "value"
            /\ \A o \in {"EMOTICONS", "BASE_URL", "FILE_EXTENSION"} :
                  IF o \in DOMAIN supplied'
                  THEN config'[o] = supplied'[o]
                  ELSE IsDefault(o, config'[o])
       /\ call'.op = "render" => config' = config]_vars

\* C10 as stated: for every table, the empty one included, every match of
\* the pattern is a key of the table, so the lookup in handleMatch never
\* fails and every image stands for a configured symbol.
C10_Original ==
    Rendered =>
        /\ ret.kind = "value"
        /\ \A i \in Images(ret.nodes) :
              ret.nodes[i].alt \in KeySet(config.EMOTICONS.items)

=============================================================================
